---- MODULE Spec2Model ----
(***************************************************************************)
(* Model of src/app.py: a Streamlit script that, per browser session,      *)
(* keeps one value st.session_state.data, fills it from one call of a      *)
(* hosted model behind a JSON output parser, shows it, renders it with     *)
(* ResumePDF to the file "optimized.pdf" and offers that file for          *)
(* download.                                                               *)
(*                                                                         *)
(* Text is a sequence of one-character strings, so that upper-casing,      *)
(* joining and prefixing are computed and not assumed.  A JSON value is a  *)
(* tagged record [t, v]; a JSON object is a record of such values.         *)
(***************************************************************************)
EXTENDS Integers, Sequences, FiniteSets, TLC

VARIABLES
    credential,     \* GROQ_API_KEY is in the environment after load_dotenv()
    uploaded_file,  \* per session: the file_uploader widget's value
    job_desc,       \* per session: the text_area widget's value
    data,           \* per session: st.session_state.data
    pc,             \* per session: where the session's script run stands
    outcome,        \* per session: how the handler of the latest run ended
    shown,          \* per session: what column 2 of the page shows
    optimized_pdf,  \* the file "optimized.pdf" in the process's directory
    offered,        \* per session: the bytes handed to st.download_button
    calls,          \* per session: requests that reached the inference endpoint
    reached,        \* per session: generate actions that got to chain.invoke
    lastParsed      \* per session: what the parser returned last

vars == <<credential, uploaded_file, job_desc, data, pc, outcome, shown,
          optimized_pdf, offered, calls, reached, lastParsed>>

----------------------------------------------------------------------------
(* Bounds of the model *)

\* inference calls the whole model makes before the generate button is held back
MaxCalls == 2
\* longest skills / experience / education list of a rendered Profile
MaxList == 2
\* page height in FPDF user units.  The library's default page (A4) is 297
\* high; the model's page is shorter so that lists of MaxList items reach the
\* automatic page break.
PageHeight == 120

\* The browser sessions connected to the one Streamlit process: two, the
\* least number whose script runs can interleave.
Sessions == {1, 2}

----------------------------------------------------------------------------
(* Values *)

None == [t |-> "None"]
Absent == [t |-> "absent"]      \* "data" is not a key of st.session_state
NoFile == [t |-> "nofile"]      \* optimized.pdf does not exist / no button

JStr(s) == [t |-> "str", v |-> s]
JInt(n) == [t |-> "int", v |-> n]
JList(l) == [t |-> "list", v |-> l]

Fields == {"name", "email", "phone", "summary", "skills", "experience",
           "education", "ats_score", "optimization_points"}

\* the type OptimizedProfile declares for a field
FieldType(f) ==
    CASE f \in {"name", "email", "phone", "summary"} -> "str"
      [] f \in {"skills", "experience", "education", "optimization_points"} -> "list"
      [] f = "ats_score" -> "int"

\* every field of OptimizedProfile is there with its declared type
ShapeConforms(d) ==
    /\ Fields \subseteq DOMAIN d
    /\ \A f \in Fields : d[f].t = FieldType(f)

\* "ATS match score from 0-100", for a tagged JSON value
ScoreInRange(x) == x.t = "int" /\ x.v >= 0 /\ x.v <= 100

MkProfile(n, e, p, su, sk, ex, ed, sc, op) ==
    [name |-> JStr(n), email |-> JStr(e), phone |-> JStr(p), summary |-> JStr(su),
     skills |-> JList(sk), experience |-> JList(ex), education |-> JList(ed),
     ats_score |-> JInt(sc), optimization_points |-> JList(op)]

----------------------------------------------------------------------------
(* Text *)

\* str.upper() on one character of the model's alphabet
UpperChar(c) ==
    CASE c = "a" -> "A"
      [] c = "b" -> "B"
      [] c = "j" -> "J"
      [] c = "x" -> "X"
      [] OTHER -> c

\* str.upper()
Upper(s) == [i \in 1..Len(s) |-> UpperChar(s[i])]

\* sep.join(list)
RECURSIVE Join(_, _)
Join(l, sep) ==
    IF l = <<>> THEN <<>>
    ELSE IF Len(l) = 1 THEN l[1]
    ELSE l[1] \o sep \o Join(Tail(l), sep)

CommaSpace == <<",", " ">>
DashSpace == <<"-", " ">>
BarSep == <<" ", "|", " ">>
TwoSpaces == <<" ", " ">>

----------------------------------------------------------------------------
(* ResumePDF: the document is the sequence of text blocks handed to the    *)
(* layout calls, each with the page it lands on.  Within the model's       *)
(* bounds every text fits one line of the printable width, so a            *)
(* multi_cell is one line of its height.                                   *)

\* set_auto_page_break(auto=True, margin=15): the y past which a cell breaks
PageBreakTrigger == PageHeight - 15

NewPdf == [y |-> 0, page |-> 0, out |-> <<>>,
           candidate_name |-> <<>>, email |-> <<>>, phone |-> <<>>]

\* one line of text placed at the current y, then the move below it (ln=True)
Emit(pdf, kind, txt, h) ==
    [pdf EXCEPT !.out = Append(@, [kind |-> kind, txt |-> txt, page |-> pdf.page]),
                !.y = @ + h]

\* FPDF.ln(h)
Ln(pdf, h) == [pdf EXCEPT !.y = @ + h]

\* ResumePDF.header, called by the library at the top of every page
header(pdf) ==
    Ln(Emit(Emit(pdf, "name", Upper(pdf.candidate_name), 10),
            "contact", pdf.email \o BarSep \o pdf.phone, 5), 5)

\* FPDF.add_page() under set_margins(15, 15, 15): a new page, y at the top
\* margin, then header()
add_page(pdf) == header([pdf EXCEPT !.page = @ + 1, !.y = 15])

\* FPDF.cell / one line of FPDF.multi_cell: the automatic page break comes
\* before the line is placed
cell(pdf, kind, txt, h) ==
    IF pdf.y + h > PageBreakTrigger
    THEN Emit(add_page(pdf), kind, txt, h)
    ELSE Emit(pdf, kind, txt, h)

\* ResumePDF.section_header
section_header(pdf, title) ==
    Ln(cell(pdf, "section", TwoSpaces \o title, 8), 2)

\* items with the "- " left out
RECURSIVE itemsNoPrefix(_, _)
itemsNoPrefix(pdf, content) ==
    IF content = <<>> THEN pdf
    ELSE itemsNoPrefix(Ln(cell(pdf, "item", content[1], 6), 1), Tail(content))

\* for item in content: multi_cell(eff_width, 6, f"- {item}"); ln(1)
RECURSIVE items(_, _)
items(pdf, content) ==
    IF content = <<>> THEN pdf
    ELSE items(Ln(cell(pdf, "item", DashSpace \o content[1], 6), 1), Tail(content))

\* one turn of "for title, content in sections"
section(pdf, title, content) ==
    LET p1 == section_header(pdf, title)
        p2 == IF content.t = "list"
              THEN items(p1, content.v)
              ELSE cell(p1, "para", content.v, 6)
    IN  Ln(p2, 4)

\* JoinSkills with "," for ", "
JoinSkillsComma(x) == Join(x.v, <<",">>)
\* ", ".join(x): of a list of strings, or of a string's characters
JoinSkills(x) ==
    IF x.t = "list" THEN Join(x.v, CommaSpace)
    ELSE Join([i \in 1..Len(x.v) |-> <<x.v[i]>>], CommaSpace)

T_SUMMARY == <<"PROFESSIONAL SUMMARY">>
T_SKILLS == <<"TECHNICAL EXPERTISE">>
T_EXPERIENCE == <<"SELECTED EXPERIENCE">>
T_EDUCATION == <<"EDUCATION">>

\* the keys generate reads, and the types of them the model renders; any
\* other shape ends generate in an exception
Renderable(d) ==
    /\ {"name", "email", "phone", "summary", "skills", "experience", "education"}
           \subseteq DOMAIN d
    /\ \A f \in {"name", "email", "phone", "summary"} : d[f].t = "str"
    /\ d.skills.t \in {"list", "str"}
    /\ \A f \in {"experience", "education"} : d[f].t \in {"list", "str"}

\* ResumePDF.generate(data) followed by the document's blocks; Renderable(data)
generate(d) ==
    LET p0 == add_page([NewPdf EXCEPT !.candidate_name = d.name.v,
                                      !.email = d.email.v,
                                      !.phone = d.phone.v])
        p1 == section(p0, T_SUMMARY, d.summary)
        p2 == section(p1, T_SKILLS, JStr(JoinSkills(d.skills)))
        p3 == section(p2, T_EXPERIENCE, d.experience)
        p4 == section(p3, T_EDUCATION, d.education)
    IN  p4.out

----------------------------------------------------------------------------
(* The hosted endpoint behind "prompt | llm | parser" *)

P_Jane == MkProfile(<<"j">>, <<"e">>, <<"5">>, <<"s">>, <<<<"p">>>>,
                    <<<<"x">>>>, <<<<"c">>>>, 82, <<<<"m">>>>)
P_Raj == MkProfile(<<"a">>, <<"f">>, <<"6">>, <<"t">>, <<<<"q">>>>,
                   <<<<"y">>>>, <<<<"d">>>>, 64, <<<<"n">>>>)
\* JSON objects that are not an OptimizedProfile
P_Score150 == [P_Jane EXCEPT !.ats_score = JInt(150)]
P_ScoreStr == [P_Raj EXCEPT !.ats_score = JStr(<<"h">>)]
P_NoEducation == [f \in Fields \ {"education"} |-> P_Jane[f]]

\* the JSON values the model's endpoint answers with: two Profiles and three
\* objects that are none (the answers null and {} are left out)
JsonReplies == {P_Jane, P_Raj, P_Score150, P_ScoreStr, P_NoEducation}

Files == {"none", "resume.pdf", "corrupt.pdf"}
JobDescs == {"", "jd"}

----------------------------------------------------------------------------
(* One session's script runs.  A run is lines 73-115 (the widgets, the     *)
(* generate handler and column 2 up to pdf.output) and then lines 117-118  *)
(* (open and download_button): the file optimized.pdf, written at the end  *)
(* of the first part and read in the second, is all that sessions share.   *)
(* An exception ends the run where it is raised.  The user's next event    *)
(* comes when the run is over.                                             *)

Info == [kind |-> "info"]
Exception == [kind |-> "exception"]
Blank == [kind |-> "blank"]
Header(d, rendered) ==
    [kind |-> "profile", name |-> d.name, ats_score |-> d.ats_score,
     rendered |-> rendered]

Init ==
    /\ credential \in BOOLEAN
    /\ uploaded_file = [s \in Sessions |-> "none"]
    /\ job_desc = [s \in Sessions |-> ""]
    /\ data = [s \in Sessions |-> Absent]
    /\ pc = [s \in Sessions |-> "new"]
    /\ outcome = [s \in Sessions |-> "NoGenerate"]
    /\ shown = [s \in Sessions |-> Blank]
    /\ optimized_pdf = NoFile
    /\ offered = [s \in Sessions |-> NoFile]
    /\ calls = [s \in Sessions |-> 0]
    /\ reached = [s \in Sessions |-> 0]
    /\ lastParsed = [s \in Sessions |-> None]

\* the model stops pressing the button once MaxCalls requests were made
CallsLeft == calls[1] + calls[2] < MaxCalls

\* line 104: if st.session_state.data (every object of JsonReplies has keys)
Truthy(d) == d # None /\ d # Absent

\* lines 106-110 read these keys
Displayable(d) == {"name", "ats_score", "optimization_points"} \subseteq DOMAIN d

\* lines 103-115 and 119-120, with d the session's data when they run:
\* nothing to show; or a missing key (KeyError) or a value the renderer
\* cannot take ends the run before pdf.output; or the Profile is shown,
\* rendered and written to optimized.pdf
Col2(s, d) ==
    IF ~Truthy(d)
    THEN /\ shown' = [shown EXCEPT ![s] = Info]
         /\ offered' = [offered EXCEPT ![s] = NoFile]
         /\ pc' = [pc EXCEPT ![s] = "idle"]
         /\ UNCHANGED optimized_pdf
    ELSE IF ~(Displayable(d) /\ Renderable(d))
    THEN /\ shown' = [shown EXCEPT ![s] =
                         IF Displayable(d) THEN Header(d, FALSE) ELSE Exception]
         /\ offered' = [offered EXCEPT ![s] = NoFile]
         /\ pc' = [pc EXCEPT ![s] = "idle"]
         /\ UNCHANGED optimized_pdf
    ELSE /\ shown' = [shown EXCEPT ![s] = Header(d, TRUE)]
         /\ optimized_pdf' = generate(d)
         /\ pc' = [pc EXCEPT ![s] = "open"]
         /\ UNCHANGED offered

\* the session's first run: lines 73-74, no widget has a value yet
FirstRun(s) ==
    /\ pc[s] = "new"
    /\ data' = [data EXCEPT ![s] = None]
    /\ Col2(s, None)
    /\ UNCHANGED <<credential, uploaded_file, job_desc, outcome, calls, reached,
                   lastParsed>>

\* a rerun whose button is not pressed: the handler is skipped
Rerun(s) ==
    /\ outcome' = [outcome EXCEPT ![s] = "NoGenerate"]
    /\ Col2(s, data[s])
    /\ UNCHANGED <<credential, data, calls, reached, lastParsed>>

\* line 80: the user picks or removes a file
Upload(s, f) ==
    /\ pc[s] = "idle"
    /\ f # uploaded_file[s]
    /\ uploaded_file' = [uploaded_file EXCEPT ![s] = f]
    /\ UNCHANGED job_desc
    /\ Rerun(s)

\* line 81: the user edits the job description
EditJobDesc(s, jd) ==
    /\ pc[s] = "idle"
    /\ jd # job_desc[s]
    /\ job_desc' = [job_desc EXCEPT ![s] = jd]
    /\ UNCHANGED uploaded_file
    /\ Rerun(s)

\* line 118: a click on the download button reruns the script
ClickDownload(s) ==
    /\ pc[s] = "idle"
    /\ offered[s] # NoFile
    /\ UNCHANGED <<uploaded_file, job_desc>>
    /\ Rerun(s)

\* Accepted without the test of the job description
AcceptedFileOnly(s) == uploaded_file[s] # "none"
\* line 84: if uploaded_file and job_desc
Accepted(s) == uploaded_file[s] # "none" /\ job_desc[s] # ""

\* an exception leaves the handler: the run ends, column 2 is not reached
Raise(s, what) ==
    /\ outcome' = [outcome EXCEPT ![s] = what]
    /\ shown' = [shown EXCEPT ![s] = Exception]
    /\ offered' = [offered EXCEPT ![s] = NoFile]
    /\ pc' = [pc EXCEPT ![s] = "idle"]
    /\ UNCHANGED <<credential, uploaded_file, job_desc, data, optimized_pdf,
                   lastParsed>>

\* lines 83-84: the button is pressed and the guard is false
GenerateBlocked(s) ==
    /\ pc[s] = "idle"
    /\ ~Accepted(s)
    /\ outcome' = [outcome EXCEPT ![s] = "InputIncomplete"]
    /\ Col2(s, data[s])
    /\ UNCHANGED <<credential, uploaded_file, job_desc, data, calls, reached,
                   lastParsed>>

\* line 86: extract_text raises on the uploaded bytes
GenerateExtractionError(s) ==
    /\ pc[s] = "idle"
    /\ Accepted(s)
    /\ uploaded_file[s] = "corrupt.pdf"
    /\ Raise(s, "ExtractionError")
    /\ UNCHANGED <<calls, reached>>

\* lines 86-87: the text is extracted, then ChatGroq(...) finds no API key
GenerateNoCredential(s) ==
    /\ pc[s] = "idle"
    /\ Accepted(s)
    /\ uploaded_file[s] = "resume.pdf"
    /\ ~credential
    /\ Raise(s, "ConfigError")
    /\ UNCHANGED <<calls, reached>>

\* lines 84-101 up to the request of chain.invoke
Invoke(s) ==
    /\ pc[s] = "idle"
    /\ Accepted(s)
    /\ uploaded_file[s] = "resume.pdf"
    /\ credential
    /\ CallsLeft
    /\ reached' = [reached EXCEPT ![s] = @ + 1]

\* Requests with one retry of a failed call
RequestsRetry(reply) == IF reply = "error" THEN 2 ELSE 1
\* the requests one chain.invoke makes, whatever the endpoint answers
Requests(reply) == 1

\* line 101: the hosted call fails, times out or is rate-limited
GenerateInferenceError(s) ==
    /\ Invoke(s)
    /\ calls' = [calls EXCEPT ![s] = @ + Requests("error")]
    /\ Raise(s, "InferenceError")

\* line 101: the answer is not JSON, JsonOutputParser raises
GenerateParseError(s) ==
    /\ Invoke(s)
    /\ calls' = [calls EXCEPT ![s] = @ + Requests("text")]
    /\ Raise(s, "ParseError")

\* Store as an update in place that keeps the old name
StoreMerge(old, new) ==
    IF old # None /\ "name" \in DOMAIN old THEN [new EXCEPT !.name = old.name] ELSE new
\* st.session_state.data = <the parser's value>
Store(old, new) == new

\* line 101: the answer is JSON; the parser's value is assigned as it is
GenerateStored(s, v) ==
    /\ Invoke(s)
    /\ calls' = [calls EXCEPT ![s] = @ + Requests("json")]
    /\ data' = [data EXCEPT ![s] = Store(data[s], v)]
    /\ lastParsed' = [lastParsed EXCEPT ![s] = v]
    /\ outcome' = [outcome EXCEPT ![s] = "Stored"]
    /\ Col2(s, data'[s])
    /\ UNCHANGED <<credential, uploaded_file, job_desc>>

\* lines 117-118: optimized.pdf is opened and its bytes go to download_button
\* (the file is read whole: a read that overlaps another session's write is
\* taken as a read after it)
Open(s) ==
    /\ pc[s] = "open"
    /\ offered' = [offered EXCEPT ![s] = optimized_pdf]
    /\ pc' = [pc EXCEPT ![s] = "idle"]
    /\ UNCHANGED <<credential, uploaded_file, job_desc, data, outcome, shown,
                   optimized_pdf, calls, reached, lastParsed>>

Next ==
    \E s \in Sessions :
        \/ FirstRun(s)
        \/ \E f \in Files : Upload(s, f)
        \/ \E jd \in JobDescs : EditJobDesc(s, jd)
        \/ ClickDownload(s)
        \/ GenerateBlocked(s)
        \/ GenerateExtractionError(s)
        \/ GenerateNoCredential(s)
        \/ GenerateInferenceError(s)
        \/ GenerateParseError(s)
        \/ \E v \in JsonReplies : GenerateStored(s, v)
        \/ Open(s)

Spec == Init /\ [][Next]_vars

----------------------------------------------------------------------------
(* Properties of the session script *)

\* the session's Profile: None while the session is Idle
Profile(d) == IF Truthy(d) THEN d ELSE None

\* d is a Profile: all nine fields, typed, the score in range
IsProfile(d) == Truthy(d) /\ ShapeConforms(d) /\ ScoreInRange(d.ats_score)

FailedCall == {"InferenceError", "ParseError"}
\* the handler outcomes in which extract_text (line 86) has run
Extracted == {"ExtractionError", "ConfigError", "InferenceError", "ParseError",
              "Stored"}

\* C1: a run makes an inference call or changes the session's Profile (so
\* also takes the session from Idle to Populated) only if the generate
\* button was pressed in it with a file present and a non-empty job
\* description; a press without them, or no press, leaves both as they were.
C1_CallOnlyWhenAccepted ==
    [][\A s \in Sessions :
          (calls'[s] # calls[s] \/ Profile(data'[s]) # Profile(data[s]))
              => /\ outcome'[s] # "NoGenerate"
                 /\ uploaded_file[s] # "none"
                 /\ job_desc[s] # ""]_vars

\* C1 witness: the button was pressed on incomplete input in a session that
\* holds a Profile from an earlier accepted press
C1_Witness ==
    \E s \in Sessions :
        outcome[s] = "InputIncomplete" /\ Truthy(data[s]) /\ calls[s] = 1

\* C2: after a generate action whose inference call or parse failed, the
\* session holds no Profile, so none from an earlier generate, and shows none.
C2_FailureLeavesNoProfile ==
    \A s \in Sessions :
        outcome[s] \in FailedCall
            => ~IsProfile(data[s]) /\ shown[s].kind # "profile"

\* C3: with every session Idle or holding a Profile, the bytes a session
\* offers for download are the rendering of that session's own Profile.
C3_DownloadIsOwnProfile ==
    (\A t \in Sessions : Truthy(data[t]) => IsProfile(data[t]))
        => \A s \in Sessions :
              (pc[s] = "idle" /\ offered[s] # NoFile)
                  => offered[s] = generate(data[s])

\* C4: the session value is absent or has all nine fields with their types.
C4_StoredConforms ==
    \A s \in Sessions : Truthy(data[s]) => ShapeConforms(data[s])

\* C5: a score that is displayed, or that belongs to a rendered Profile, is
\* an integer in [0,100].
C5_ShownScoreInRange ==
    \A s \in Sessions :
        shown[s].kind = "profile" => ScoreInRange(shown[s].ats_score)

\* C6: the session's Profile is, as a whole, what the parser returned for the
\* most recent successful call: one of the endpoint's answers, never a mix.
C6_ProfileIsLastParsed ==
    \A s \in Sessions :
        Truthy(data[s]) => data[s] = lastParsed[s] /\ data[s] \in JsonReplies

\* C6 witness: a second generate has replaced a Profile; the download still
\* on the page is the rendering of the one it replaced
C6_Witness ==
    \E s \in Sessions :
        /\ calls[s] = 2 /\ pc[s] = "open" /\ Truthy(data[s])
        /\ offered[s] # NoFile /\ offered[s] # generate(data[s])

C8_FailsFastAtStartup ==
    \A s \in Sessions :
        (~credential /\ outcome[s] = "ConfigError")
            => /\ uploaded_file[s] = "none" /\ job_desc[s] = ""
               /\ outcome[s] \notin Extracted

----------------------------------------------------------------------------
(* The renderer on its own: session 1 is Populated with any Profile of     *)
(* RenderProfiles, as after a completed generate run, and keeps            *)
(* re-rendering it (a click on the download button reruns the script).     *)

SeqsUpTo(S, n) == UNION {[1..k -> S] : k \in 0..n}

Names == {<<"a">>, <<"J", "x">>}
SkillStrs == {<<>>, <<"a">>, <<",", " ">>, <<"a", ",">>, <<" ", "b">>}
BulletStrs == {<<"x">>, <<"-", " ">>}
EntryStrs == {<<"c">>}

RenderProfiles ==
    {MkProfile(n, <<"e">>, <<"5">>, <<"s">>, sk, ex, ed, 82, <<>>) :
        n \in Names, sk \in SeqsUpTo(SkillStrs, MaxList),
        ex \in SeqsUpTo(BulletStrs, MaxList), ed \in SeqsUpTo(EntryStrs, MaxList)}

RenderInit ==
    \E P \in RenderProfiles :
        /\ credential = TRUE
        /\ uploaded_file = [s \in Sessions |-> IF s = 1 THEN "resume.pdf" ELSE "none"]
        /\ job_desc = [s \in Sessions |-> IF s = 1 THEN "jd" ELSE ""]
        /\ data = [s \in Sessions |-> IF s = 1 THEN P ELSE Absent]
        /\ pc = [s \in Sessions |-> IF s = 1 THEN "idle" ELSE "new"]
        /\ outcome = [s \in Sessions |-> IF s = 1 THEN "Stored" ELSE "NoGenerate"]
        /\ shown = [s \in Sessions |-> IF s = 1 THEN Header(P, TRUE) ELSE Blank]
        /\ optimized_pdf = generate(P)
        /\ offered = [s \in Sessions |-> IF s = 1 THEN generate(P) ELSE NoFile]
        /\ calls = [s \in Sessions |-> IF s = 1 THEN 1 ELSE 0]
        /\ reached = [s \in Sessions |-> IF s = 1 THEN 1 ELSE 0]
        /\ lastParsed = [s \in Sessions |-> IF s = 1 THEN P ELSE None]

RenderNext == ClickDownload(1) \/ Open(1)

RenderSpec == RenderInit /\ [][RenderNext]_vars

\* a block without its page
B(kind, txt) == [kind |-> kind, txt |-> txt]
Unpaged(doc) == [i \in 1..Len(doc) |-> B(doc[i].kind, doc[i].txt)]

IsHeaderBlock(b) == b.kind \in {"name", "contact"}

\* the blocks of doc that are not header blocks
RECURSIVE BodyOf(_)
BodyOf(doc) ==
    IF doc = <<>> THEN <<>>
    ELSE (IF IsHeaderBlock(doc[1]) THEN <<>> ELSE <<doc[1]>>) \o BodyOf(Tail(doc))

Bullets(l) == [i \in 1..Len(l) |-> B("item", DashSpace \o l[i])]

\* the header block and the body blocks the claim lists, for Profile P
HeaderBlocks(P) ==
    <<B("name", Upper(P.name.v)), B("contact", P.email.v \o BarSep \o P.phone.v)>>
BodyBlocks(P) ==
    <<B("section", TwoSpaces \o T_SUMMARY), B("para", P.summary.v),
      B("section", TwoSpaces \o T_SKILLS), B("para", Join(P.skills.v, CommaSpace)),
      B("section", TwoSpaces \o T_EXPERIENCE)>>
    \o Bullets(P.experience.v)
    \o <<B("section", TwoSpaces \o T_EDUCATION)>>
    \o Bullets(P.education.v)

\* session 1's column 2 has rendered its Profile in the run that is under way
Rendered == pc[1] = "open"

\* C9 as claimed: the document is the header block, then the four sections,
\* and nothing else.
C9_FixedOrder ==
    Rendered => Unpaged(optimized_pdf) = HeaderBlocks(data[1]) \o BodyBlocks(data[1])

\* C9 as amended: the blocks other than the header block are the four
\* sections in the claimed order, each section header once; the header
\* block (name upper-cased, contact line) opens every page, the first and
\* each one an automatic page break starts, and comes nowhere else.
C9_FixedOrderPerPage ==
    Rendered =>
        LET doc == optimized_pdf
            P == data[1]
        IN  /\ BodyOf(Unpaged(doc)) = BodyBlocks(P)
            /\ \A i \in 1..Len(doc) :
                  /\ (i = 1 \/ doc[i].page # doc[i - 1].page)
                        <=> doc[i].kind = "name"
                  /\ doc[i].kind = "name"
                        => /\ i < Len(doc)
                           /\ doc[i].page = (IF i = 1 THEN 1 ELSE doc[i - 1].page + 1)
                           /\ <<B("name", doc[i].txt), B("contact", doc[i + 1].txt)>>
                                  = HeaderBlocks(P)
                           /\ doc[i + 1].kind = "contact"
                  /\ doc[i].kind = "contact" => i > 1 /\ doc[i - 1].kind = "name"

\* C9 witness: a rendered document of two pages whose experience list is empty
C9_Witness ==
    /\ Rendered
    /\ data[1].experience.v = <<>>
    /\ optimized_pdf[Len(optimized_pdf)].page = 2

----------------------------------------------------------------------------
(* Reading the rendered text back *)

\* s has sep as a substring
Contains(s, sep) ==
    \E i \in 1..(Len(s) - Len(sep) + 1) : SubSeq(s, i, i + Len(sep) - 1) = sep

\* s.split(sep): cut at each leftmost occurrence of sep
RECURSIVE Split(_, _)
Split(s, sep) ==
    IF ~Contains(s, sep) THEN <<s>>
    ELSE LET i == CHOOSE k \in 1..(Len(s) - Len(sep) + 1) :
                      /\ SubSeq(s, k, k + Len(sep) - 1) = sep
                      /\ \A j \in 1..(k - 1) : SubSeq(s, j, j + Len(sep) - 1) # sep
         IN  <<SubSeq(s, 1, i - 1)>> \o Split(SubSeq(s, i + Len(sep), Len(s)), sep)

\* where the section header with this title stands among the body blocks
SectionAt(body, title) ==
    CHOOSE i \in 1..Len(body) : body[i] = B("section", TwoSpaces \o title)

\* the texts of the bullets in body[from..to], without the "- " in front
RECURSIVE BulletTexts(_, _, _)
BulletTexts(body, from, to) ==
    IF from > to THEN <<>>
    ELSE (IF body[from].kind = "item"
          THEN <<SubSeq(body[from].txt, 3, Len(body[from].txt))>> ELSE <<>>)
         \o BulletTexts(body, from + 1, to)

RecoveredName(doc) == doc[1].txt
RecoveredSkills(doc) ==
    LET body == BodyOf(Unpaged(doc))
        para == body[SectionAt(body, T_SKILLS) + 1].txt
    IN  IF para = <<>> THEN <<>> ELSE Split(para, CommaSpace)
RecoveredExperience(doc) ==
    LET body == BodyOf(Unpaged(doc))
    IN  BulletTexts(body, SectionAt(body, T_EXPERIENCE) + 1,
                    SectionAt(body, T_EDUCATION) - 1)
RecoveredEducation(doc) ==
    LET body == BodyOf(Unpaged(doc))
    IN  BulletTexts(body, SectionAt(body, T_EDUCATION) + 1, Len(body))

\* every skill is a non-empty text without ", " in it
PlainSkills(skills) ==
    \A i \in 1..Len(skills) : skills[i] # <<>> /\ ~Contains(skills[i], CommaSpace)

\* C10 as claimed: the name, the skills and the bullets read back from the
\* rendered text are the Profile's own strings, list elements distinct and
\* in order.
C10_RoundTrip ==
    Rendered =>
        /\ RecoveredName(optimized_pdf) = data[1].name.v
        /\ RecoveredSkills(optimized_pdf) = data[1].skills.v
        /\ RecoveredExperience(optimized_pdf) = data[1].experience.v
        /\ RecoveredEducation(optimized_pdf) = data[1].education.v

\* C10 as amended: the name reads back upper-cased; the skills read back as
\* the same list when every skill is non-empty and holds no ", "; every
\* experience and education bullet reads back as the same string, in order.
C10_RoundTripUpToCaseAndSeparator ==
    Rendered =>
        /\ RecoveredName(optimized_pdf) = Upper(data[1].name.v)
        /\ PlainSkills(data[1].skills.v)
              => RecoveredSkills(optimized_pdf) = data[1].skills.v
        /\ RecoveredExperience(optimized_pdf) = data[1].experience.v
        /\ RecoveredEducation(optimized_pdf) = data[1].education.v

\* C10 witness: a rendered Profile with a lower-case letter in its name, two
\* plain skills and two experience bullets, one of them itself "- "
C10_Witness ==
    /\ Rendered
    /\ Upper(data[1].name.v) # data[1].name.v
    /\ Len(data[1].skills.v) = 2 /\ PlainSkills(data[1].skills.v)
    /\ data[1].experience.v = <<DashSpace, <<"x">>>>
    /\ Len(data[1].education.v) = 1

====
